---- MODULE Spec2Model ----
(***************************************************************************)
(* Digit-by-digit ln / exp / sqrt (log.cpp) and tan / atan with range      *)
(* reduction (trig.cpp), modelled statement by statement on IEEE-754       *)
(* binary64 values.                                                        *)
(*                                                                         *)
(* A double is a record [s, e, m]: sign s (0 or 1), a 53-bit significand m *)
(* held as a little-endian sequence of base-2^15 limbs, and the exponent e *)
(* of its last bit, so that the value is (-1)^s * m * 2^e.  Zero is the    *)
(* record with the empty significand.  Every arithmetic operator computes  *)
(* the exact result and rounds it to nearest, ties to even, as the         *)
(* hardware does.  Infinities, NaN, subnormals and the sign of zero are    *)
(* not represented: the inputs explored keep every value in the normal     *)
(* range.                                                                  *)
(*                                                                         *)
(* An arithmetic operator hands its operands to a function of one tuple:   *)
(* a function is applied to values, so an operand that is itself a long    *)
(* computation is computed once, however often the body reads it.          *)
(***************************************************************************)
EXTENDS Integers, Sequences, FiniteSets, TLC

(***************************************************************************)
(* Natural numbers of arbitrary size: little-endian limbs, no leading      *)
(* zero limb, <<>> is 0.                                                   *)
(***************************************************************************)
LimbBits == 15

Base == 2 ^ LimbBits

Limb(a, i) == IF i <= Len(a) THEN a[i] ELSE 0

Nats == Seq(Nat)

bnorm[a \in Nats] ==
    IF a = <<>> THEN <<>>
    ELSE IF a[Len(a)] = 0 THEN bnorm[SubSeq(a, 1, Len(a) - 1)]
    ELSE a

BNorm(a) == bnorm[a]

RECURSIVE BCmpFrom(_, _, _)
BCmpFrom(a, b, i) ==
    IF i = 0 THEN 0
    ELSE IF a[i] > b[i] THEN 1
    ELSE IF a[i] < b[i] THEN -1
    ELSE BCmpFrom(a, b, i - 1)

bcmp[p \in Nats \X Nats] ==
    IF Len(p[1]) > Len(p[2]) THEN 1
    ELSE IF Len(p[1]) < Len(p[2]) THEN -1
    ELSE BCmpFrom(p[1], p[2], Len(p[1]))

\* -1, 0 or 1 as a < b, a = b, a > b
BCmp(a, b) == bcmp[<<a, b>>]

RECURSIVE BAddC(_, _, _, _)
BAddC(a, b, i, c) ==
    IF i > Len(a) /\ i > Len(b)
    THEN (IF c = 0 THEN <<>> ELSE <<c>>)
    ELSE LET t == Limb(a, i) + Limb(b, i) + c
         IN  <<t % Base>> \o BAddC(a, b, i + 1, t \div Base)

badd[p \in Nats \X Nats] == BAddC(p[1], p[2], 1, 0)

BAdd(a, b) == badd[<<a, b>>]

RECURSIVE BSubC(_, _, _, _)
BSubC(a, b, i, c) ==
    IF i > Len(a) THEN <<>>
    ELSE LET t == a[i] - Limb(b, i) - c
         IN  IF t < 0 THEN <<t + Base>> \o BSubC(a, b, i + 1, 1)
             ELSE <<t>> \o BSubC(a, b, i + 1, 0)

bsub[p \in Nats \X Nats] == BNorm(BSubC(p[1], p[2], 1, 0))

\* a - b for a >= b
BSub(a, b) == bsub[<<a, b>>]

RECURSIVE BMulSmallC(_, _, _, _)
BMulSmallC(a, k, i, c) ==
    IF i > Len(a)
    THEN (IF c = 0 THEN <<>> ELSE <<c>>)
    ELSE LET t == a[i] * k + c
         IN  <<t % Base>> \o BMulSmallC(a, k, i + 1, t \div Base)

bmulsmall[p \in Nats \X Nat] ==
    IF p[2] = 0 THEN <<>> ELSE BMulSmallC(p[1], p[2], 1, 0)

\* a * k for 0 <= k < Base
BMulSmall(a, k) == bmulsmall[<<a, k>>]

RECURSIVE BMulFrom(_, _, _)
BMulFrom(a, b, i) ==
    IF i > Len(b) THEN <<>>
    ELSE BAdd(BMulSmall(a, b[i]), <<0>> \o BMulFrom(a, b, i + 1))

bmul[p \in Nats \X Nats] == BNorm(BMulFrom(p[1], p[2], 1))

BMul(a, b) == bmul[<<a, b>>]

RECURSIVE BDivSmallC(_, _, _, _)
BDivSmallC(a, k, i, r) ==
    IF i = 0 THEN <<>>
    ELSE LET t == r * Base + a[i]
         IN  BDivSmallC(a, k, i - 1, t % k) \o <<t \div k>>

bdivsmall[p \in Nats \X Nat] == BNorm(BDivSmallC(p[1], p[2], Len(p[1]), 0))

\* floor(a / k) for 0 < k <= Base
BDivSmall(a, k) == bdivsmall[<<a, k>>]

Zeros(n) == [i \in 1..n |-> 0]

bshl[p \in Nats \X Nat] ==
    IF p[1] = <<>> THEN <<>>
    ELSE Zeros(p[2] \div LimbBits) \o BMulSmall(p[1], 2 ^ (p[2] % LimbBits))

\* a * 2^n
BShl(a, n) == bshl[<<a, n>>]

bshr[p \in Nats \X Nat] ==
    IF p[2] \div LimbBits >= Len(p[1]) THEN <<>>
    ELSE BDivSmall(SubSeq(p[1], p[2] \div LimbBits + 1, Len(p[1])),
                   2 ^ (p[2] % LimbBits))

\* floor(a / 2^n)
BShr(a, n) == bshr[<<a, n>>]

RECURSIVE SmallBits(_)
SmallBits(k) == IF k = 0 THEN 0 ELSE 1 + SmallBits(k \div 2)

bbitlen[a \in Nats] ==
    IF a = <<>> THEN 0 ELSE LimbBits * (Len(a) - 1) + SmallBits(a[Len(a)])

\* number of significant bits of a
BBitLen(a) == bbitlen[a]

BOdd(a) == a # <<>> /\ a[1] % 2 = 1

BFromInt(k) == BNorm(<<k % Base, (k \div Base) % Base, k \div (Base * Base)>>)

(***************************************************************************)
(* IEEE-754 binary64 arithmetic, round to nearest, ties to even.           *)
(***************************************************************************)
MantBits == 53

Zero == [s |-> 0, e |-> 0, m |-> <<>>]

IsZero(a) == a.m = <<>>

\* The doubles
Dbl == [s : {0, 1}, e : Int, m : Nats]

\* N, its sign s and exponent e, its quotient q by 2^k rounded to nearest even
roundq[p \in Nat \X Nats \X Int \X Nats \X Nat] ==
    LET N    == p[2]
        q    == p[4]
        k    == p[5]
        half == BCmp(BSub(N, BShl(q, k)), BShl(<<1>>, k - 1))
        q1   == IF half = 1 \/ (half = 0 /\ BOdd(q)) THEN BAdd(q, <<1>>) ELSE q
    IN  IF BBitLen(q1) > MantBits
        THEN [s |-> p[1], e |-> p[3] + k + 1, m |-> BShr(q1, 1)]
        ELSE [s |-> p[1], e |-> p[3] + k, m |-> q1]

round[p \in Nat \X Nats \X Int] ==
    LET L == BBitLen(p[2]) IN
    IF L = 0 THEN Zero
    ELSE IF L <= MantBits
    THEN [s |-> p[1], e |-> p[3] - (MantBits - L), m |-> BShl(p[2], MantBits - L)]
    ELSE roundq[<<p[1], p[2], p[3], BShr(p[2], L - MantBits), L - MantBits>>]

\* The double nearest to (-1)^s * N * 2^e, N a natural number of any size.
Round(s, N, e) == round[<<s, N, e>>]

\* int -> double conversion
FromInt(k) == IF k < 0 THEN Round(1, BFromInt(-k), 0) ELSE Round(0, BFromInt(k), 0)

\* fabs()
FAbs(a) == [a EXCEPT !.s = 0]

\* unary minus
FNeg(a) == IF IsZero(a) THEN a ELSE [a EXCEPT !.s = 1 - a.s]

\* -1, 0, 1 as |a| < |b|, |a| = |b|, |a| > |b|
MagCmp(a, b) ==
    IF IsZero(a) THEN (IF IsZero(b) THEN 0 ELSE -1)
    ELSE IF IsZero(b) THEN 1
    ELSE IF a.e > b.e THEN 1
    ELSE IF a.e < b.e THEN -1
    ELSE BCmp(a.m, b.m)

\* -1, 0, 1 as a < b, a = b, a > b
FCmp(a, b) ==
    LET na == a.s = 1 /\ ~IsZero(a)
        nb == b.s = 1 /\ ~IsZero(b)
    IN  IF na /\ ~nb THEN -1
        ELSE IF ~na /\ nb THEN 1
        ELSE IF na THEN -MagCmp(a, b)
        ELSE MagCmp(a, b)

FLt(a, b) == FCmp(a, b) < 0
FLe(a, b) == FCmp(a, b) <= 0
FGt(a, b) == FCmp(a, b) > 0
FGe(a, b) == FCmp(a, b) >= 0
FEq(a, b) == FCmp(a, b) = 0

\* a + b for |a| >= |b|, both nonzero
AddOrdered(a, b) ==
    LET d == a.e - b.e IN
    IF d > MantBits + 3 THEN a
    ELSE LET A == BShl(a.m, d) IN
         IF a.s = b.s THEN Round(a.s, BAdd(A, b.m), b.e)
         ELSE Round(a.s, BSub(A, b.m), b.e)

fadd[p \in Dbl \X Dbl] ==
    IF IsZero(p[1]) THEN p[2]
    ELSE IF IsZero(p[2]) THEN p[1]
    ELSE IF MagCmp(p[1], p[2]) >= 0 THEN AddOrdered(p[1], p[2])
    ELSE AddOrdered(p[2], p[1])

\* a + b
FAdd(a, b) == fadd[<<a, b>>]

\* a - b
FSub(a, b) == FAdd(a, FNeg(b))

fmul[p \in Dbl \X Dbl] ==
    IF IsZero(p[1]) \/ IsZero(p[2]) THEN Zero
    ELSE Round((p[1].s + p[2].s) % 2, BMul(p[1].m, p[2].m), p[1].e + p[2].e)

\* a * b
FMul(a, b) == fmul[<<a, b>>]

\* The largest q <= est with q * d <= r
RECURSIVE DivFix(_, _, _)
DivFix(r, d, est) ==
    IF BCmp(BMulSmall(d, est), r) > 0 THEN DivFix(r, d, est - 1) ELSE est

\* Schoolbook long division in base 2^15 of r (already shifted up one limb) by d,
\* n more quotient limbs after this one: <<quotient, remainder>>.  d has four
\* limbs and its top limb is at least Base / 2.
divlimbs[p \in Nats \X Nats \X Nats \X Nat] ==
    LET r   == p[1]
        d   == p[2]
        est == (Limb(r, 5) * Base + Limb(r, 4)) \div d[4]
        qh  == DivFix(r, d, IF est > Base - 1 THEN Base - 1 ELSE est)
        r2  == BSub(r, BMulSmall(d, qh))
    IN  IF p[4] = 0 THEN <<BNorm(<<qh>> \o p[3]), r2>>
        ELSE divlimbs[<<(IF r2 = <<>> THEN <<>> ELSE <<0>> \o r2), d,
                        <<qh>> \o p[3], p[4] - 1>>]

fdiv[p \in Dbl \X Dbl] ==
    IF IsZero(p[1]) THEN Zero
    ELSE LET A  == BMulSmall(p[1].m, 128)
             B  == BMulSmall(p[2].m, 128)
             q0 == IF BCmp(A, B) >= 0 THEN 1 ELSE 0
             r0 == IF q0 = 1 THEN BSub(A, B) ELSE A
             qr == divlimbs[<<(IF r0 = <<>> THEN <<>> ELSE <<0>> \o r0), B, <<q0>>, 3>>]
             N  == BAdd(BMulSmall(qr[1], 2), IF qr[2] = <<>> THEN <<>> ELSE <<1>>)
         IN  Round((p[1].s + p[2].s) % 2, N, p[1].e - p[2].e - 61)

\* a / b, b nonzero
FDiv(a, b) == fdiv[<<a, b>>]

(***************************************************************************)
(* The tables and literals of the source, as the doubles the compiler and  *)
(* the C library produce for them.                                         *)
(***************************************************************************)
M == 7

K == 7

One == FromInt(1)

Ten == FromInt(10)

\* The input limit of exp1
ExpLimit == FromInt(230)

\* log(10.0)
ln10 == [s |-> 0, e |-> -51, m |-> <<21782, 30570, 11974, 147>>]

\* ln1: logs[] = log(2.0), log(1.1), ..., log(1.0000001), indexed from 0
ln1_logs_values ==
    << [s |-> 0, e |-> -53, m |-> <<14831, 32244, 14603, 177>>],
       [s |-> 0, e |-> -56, m |-> <<18124, 29304, 6397, 195>>],
       [s |-> 0, e |-> -59, m |-> <<13948, 6548, 859, 163>>],
       [s |-> 0, e |-> -62, m |-> <<15556, 7960, 213, 131>>],
       [s |-> 0, e |-> -66, m |-> <<31956, 3247, 23092, 209>>],
       [s |-> 0, e |-> -69, m |-> <<2597, 21342, 25274, 167>>],
       [s |-> 0, e |-> -72, m |-> <<14877, 10214, 7132, 134>>],
       [s |-> 0, e |-> -76, m |-> <<25746, 2294, 24522, 214>>] >>

\* ln1: table[] = 2, 1.1, ..., 1.0000001, indexed from 0
ln1_table_values ==
    << [s |-> 0, e |-> -51, m |-> <<0, 0, 0, 128>>],
       [s |-> 0, e |-> -52, m |-> <<6554, 13107, 26214, 140>>],
       [s |-> 0, e |-> -52, m |-> <<23593, 1310, 9175, 129>>],
       [s |-> 0, e |-> -52, m |-> <<15466, 9961, 4194, 128>>],
       [s |-> 0, e |-> -52, m |-> <<11377, 14103, 419, 128>>],
       [s |-> 0, e |-> -52, m |-> <<17522, 30901, 41, 128>>],
       [s |-> 0, e |-> -52, m |-> <<31243, 6366, 4, 128>>],
       [s |-> 0, e |-> -52, m |-> <<29339, 13743, 0, 128>>] >>

\* exp1: logs[] = ln10, log(2.0), ..., log(1.00000001), indexed from 0
exp1_logs_values ==
    << [s |-> 0, e |-> -51, m |-> <<21782, 30570, 11974, 147>>],
       [s |-> 0, e |-> -53, m |-> <<14831, 32244, 14603, 177>>],
       [s |-> 0, e |-> -56, m |-> <<18124, 29304, 6397, 195>>],
       [s |-> 0, e |-> -59, m |-> <<13948, 6548, 859, 163>>],
       [s |-> 0, e |-> -62, m |-> <<15556, 7960, 213, 131>>],
       [s |-> 0, e |-> -66, m |-> <<31956, 3247, 23092, 209>>],
       [s |-> 0, e |-> -69, m |-> <<2597, 21342, 25274, 167>>],
       [s |-> 0, e |-> -72, m |-> <<14877, 10214, 7132, 134>>],
       [s |-> 0, e |-> -76, m |-> <<25746, 2294, 24522, 214>>],
       [s |-> 0, e |-> -79, m |-> <<21719, 15461, 26171, 171>>] >>

\* exp1: table[] = 0, 2, 1.1, ..., 1.00000001, indexed from 0
exp1_table_values ==
    << Zero,
       [s |-> 0, e |-> -51, m |-> <<0, 0, 0, 128>>],
       [s |-> 0, e |-> -52, m |-> <<6554, 13107, 26214, 140>>],
       [s |-> 0, e |-> -52, m |-> <<23593, 1310, 9175, 129>>],
       [s |-> 0, e |-> -52, m |-> <<15466, 9961, 4194, 128>>],
       [s |-> 0, e |-> -52, m |-> <<11377, 14103, 419, 128>>],
       [s |-> 0, e |-> -52, m |-> <<17522, 30901, 41, 128>>],
       [s |-> 0, e |-> -52, m |-> <<31243, 6366, 4, 128>>],
       [s |-> 0, e |-> -52, m |-> <<29339, 13743, 0, 128>>],
       [s |-> 0, e |-> -52, m |-> <<12764, 1374, 0, 128>>] >>

\* constexpr double pi = 3.141592653589793
pi == [s |-> 0, e |-> -51, m |-> <<11544, 10376, 2029, 201>>]

\* tans[] = atan(1), atan(0.1), ..., atan(0.000001), indexed from 0
tans_values ==
    << [s |-> 0, e |-> -53, m |-> <<11544, 10376, 2029, 201>>],
       [s |-> 0, e |-> -56, m |-> <<19533, 1477, 3978, 204>>],
       [s |-> 0, e |-> -59, m |-> <<31581, 5693, 27346, 163>>],
       [s |-> 0, e |-> -62, m |-> <<28182, 28322, 2357, 131>>],
       [s |-> 0, e |-> -66, m |-> <<30306, 21321, 23435, 209>>],
       [s |-> 0, e |-> -69, m |-> <<26708, 4544, 25302, 167>>],
       [s |-> 0, e |-> -72, m |-> <<26471, 16747, 7134, 134>>] >>

\* table[] = 1, 0.1, ..., 0.000001, indexed from 0
table_values ==
    << [s |-> 0, e |-> -52, m |-> <<0, 0, 0, 128>>],
       [s |-> 0, e |-> -56, m |-> <<6554, 13107, 26214, 204>>],
       [s |-> 0, e |-> -59, m |-> <<5243, 3932, 27525, 163>>],
       [s |-> 0, e |-> -62, m |-> <<10748, 9699, 2359, 131>>],
       [s |-> 0, e |-> -66, m |-> <<17197, 22072, 23435, 209>>],
       [s |-> 0, e |-> -69, m |-> <<26865, 4550, 25302, 167>>],
       [s |-> 0, e |-> -72, m |-> <<28045, 16747, 7134, 134>>] >>

\* The literal 0.1
Tenth == [s |-> 0, e |-> -56, m |-> <<6554, 13107, 26214, 204>>]

\* The literal 1e-15
Tolerance == [s |-> 0, e |-> -102, m |-> <<22038, 15822, 3774, 144>>]

\* tests_ln[] of algo_log
tests_ln ==
    << [s |-> 0, e |-> -79, m |-> <<3130, 17505, 26171, 171>>],
       [s |-> 0, e |-> -62, m |-> <<10748, 9699, 2359, 131>>],
       [s |-> 0, e |-> -52, m |-> <<0, 0, 0, 128>>],
       [s |-> 0, e |-> -52, m |-> <<6554, 13107, 26214, 140>>],
       [s |-> 0, e |-> -50, m |-> <<6554, 13107, 26214, 140>>],
       [s |-> 0, e |-> -49, m |-> <<5243, 3932, 27525, 159>>],
       [s |-> 0, e |-> -49, m |-> <<0, 0, 0, 160>>],
       [s |-> 0, e |-> -49, m |-> <<0, 0, 0, 176>>],
       [s |-> 0, e |-> -49, m |-> <<15729, 11796, 17039, 197>>],
       [s |-> 0, e |-> -49, m |-> <<20709, 13893, 31719, 253>>],
       [s |-> 0, e |-> -48, m |-> <<27997, 32138, 28363, 201>>],
       [s |-> 0, e |-> 61, m |-> <<15394, 10094, 3350, 152>>] >>

\* tests_exp[] of algo_log
tests_exp ==
    << Zero,
       [s |-> 1, e |-> -52, m |-> <<0, 0, 0, 128>>],
       [s |-> 0, e |-> -79, m |-> <<3130, 17505, 26171, 171>>],
       [s |-> 0, e |-> -62, m |-> <<10748, 9699, 2359, 131>>],
       [s |-> 0, e |-> -52, m |-> <<0, 0, 0, 128>>],
       [s |-> 0, e |-> -52, m |-> <<6554, 13107, 26214, 140>>],
       [s |-> 0, e |-> -50, m |-> <<6554, 13107, 26214, 140>>],
       [s |-> 0, e |-> -49, m |-> <<5243, 3932, 27525, 159>>],
       [s |-> 0, e |-> -49, m |-> <<0, 0, 0, 160>>],
       [s |-> 0, e |-> -49, m |-> <<0, 0, 0, 176>>],
       [s |-> 0, e |-> -49, m |-> <<15729, 11796, 17039, 197>>],
       [s |-> 0, e |-> -49, m |-> <<20709, 13893, 31719, 253>>],
       [s |-> 0, e |-> -48, m |-> <<27997, 32138, 28363, 201>>],
       [s |-> 0, e |-> -46, m |-> <<23383, 32610, 15282, 174>>],
       [s |-> 0, e |-> -95, m |-> <<14590, 14332, 30672, 138>>],
       [s |-> 0, e |-> -99, m |-> <<7433, 26469, 4127, 180>>],
       [s |-> 0, e |-> -45, m |-> <<0, 0, 0, 230>>] >>

\* tests_sqrt[] of algo_sqrt
tests_sqrt ==
    << Zero,
       [s |-> 0, e |-> -37, m |-> <<0, 0, 29312, 213>>],
       [s |-> 0, e |-> -36, m |-> <<0, 0, 26880, 244>>],
       [s |-> 0, e |-> -53, m |-> <<0, 0, 0, 128>>],
       [s |-> 0, e |-> -64, m |-> <<15047, 7025, 16410, 183>>],
       [s |-> 0, e |-> -58, m |-> <<5243, 3932, 27525, 163>>],
       [s |-> 0, e |-> -52, m |-> <<0, 0, 0, 128>>],
       [s |-> 0, e |-> 207, m |-> <<30511, 32493, 16793, 170>>] >>

\* tests_tan[] of algo_trig
tests_tan ==
    << Zero,
       [s |-> 0, e |-> -53, m |-> <<13329, 9420, 3028, 252>>],
       [s |-> 0, e |-> -56, m |-> <<6554, 13107, 26214, 204>>],
       [s |-> 0, e |-> -53, m |-> <<0, 0, 0, 128>>],
       [s |-> 0, e |-> -52, m |-> <<0, 0, 0, 192>>],
       [s |-> 0, e |-> -52, m |-> <<11544, 10376, 2029, 201>>],
       [s |-> 1, e |-> -52, m |-> <<0, 0, 0, 192>>],
       [s |-> 0, e |-> -36, m |-> <<0, 0, 512, 241>>] >>

\* tests_atan[] of algo_trig
tests_atan ==
    << Zero,
       [s |-> 0, e |-> -52, m |-> <<0, 0, 0, 128>>],
       [s |-> 0, e |-> -48, m |-> <<0, 0, 0, 160>>],
       [s |-> 1, e |-> -48, m |-> <<0, 0, 0, 160>>],
       [s |-> 1, e |-> 37, m |-> <<31167, 12683, 9457, 255>>],
       [s |-> 0, e |-> -51, m |-> <<11544, 10376, 2029, 201>>],
       [s |-> 0, e |-> -52, m |-> <<11544, 10376, 2029, 201>>] >>

ln1_logs(k) == ln1_logs_values[k + 1]

ln1_table(k) == ln1_table_values[k + 1]

exp1_logs(k) == exp1_logs_values[k + 1]

exp1_table(k) == exp1_table_values[k + 1]

tans(k) == tans_values[k + 1]

table(k) == table_values[k + 1]

\* pow(10, k) for 0 <= k <= 22, where the power is a double
RECURSIVE Pow10(_)
Pow10(k) == IF k = 0 THEN One ELSE FMul(Pow10(k - 1), Ten)

(***************************************************************************)
(* The inputs explored: the harness' test arrays, the integers of          *)
(* -MaxInt..MaxInt, and the boundary values of each function.              *)
(***************************************************************************)
MaxInt == 12

Ints == {FromInt(k) : k \in (0 - MaxInt)..MaxInt}

SeqRange(q) == {q[k] : k \in 1..Len(q)}

\* 1e100 and 7e99: the largest values a 2-digit decimal exponent holds
Big1e100 == [s |-> 0, e |-> 280, m |-> <<17277, 19241, 9908, 146>>]

Big7e99 == [s |-> 0, e |-> 279, m |-> <<11080, 7277, 26979, 204>>]

LnInputs == Ints \cup SeqRange(tests_ln) \cup {Big1e100, Big7e99}

ExpInputs == Ints \cup SeqRange(tests_exp) \cup {FromInt(231), FromInt(-500)}

VARIABLES
    fn,      \* the harness call under way: "ln", "exp", "sym", "sqrt", "tan", "atan"
    pc,      \* the statement about to run
    arg,     \* the harness' x
    n,       \* the argument of the function under way
    rn,      \* range_reduction's own n
    exp,     \* range_reduction's exp
    a, kln10, digits, i, j, c, x, y, last, result

vars == <<fn, pc, arg, n, rn, exp, a, kln10, digits, i, j, c, x, y, last, result>>

NoDigits == [k \in 0..(K - 1) |-> 0]

\* The locals before the called function sets them
Locals ==
    /\ rn = Zero /\ exp = 0 /\ a = Zero /\ kln10 = Zero /\ digits = NoDigits
    /\ i = 0 /\ j = 0 /\ c = 0 /\ x = Zero /\ y = Zero /\ last = Zero
    /\ result = Zero

is_neg == FLt(n, Zero)

(***************************************************************************)
(* ln1                                                                     *)
(***************************************************************************)
\* if (n <= 0) return 0; int digits[M] = {0}; double a = n; double kln10 = 0;
LnEntry ==
    /\ pc = "ln_entry"
    /\ IF FLe(n, Zero)
       THEN /\ result' = Zero
            /\ pc' = "ln_ret"
            /\ UNCHANGED <<a, kln10, digits>>
       ELSE /\ digits' = [k \in 0..(M - 1) |-> 0]
            /\ a' = n
            /\ kln10' = Zero
            /\ pc' = "ln_exponent"
            /\ UNCHANGED result
    /\ UNCHANGED <<fn, arg, n, rn, exp, i, j, c, x, y, last>>

MantissaTooBig_gt(v) == FGt(v, Ten)

\* while (a >= 10.0)
MantissaTooBig(v) == FGe(v, Ten)

\* while (a >= 10.0) { a = a / 10; kln10 += ln10; }
LnExponentStep ==
    /\ pc = "ln_exponent"
    /\ MantissaTooBig(a)
    /\ a' = FDiv(a, Ten)
    /\ kln10' = FAdd(kln10, ln10)
    /\ UNCHANGED <<fn, pc, arg, n, rn, exp, digits, i, j, c, x, y, last, result>>

\* the loop is left; for (int j = 0; ...
LnExponentDone ==
    /\ pc = "ln_exponent"
    /\ ~MantissaTooBig(a)
    /\ j' = 0
    /\ pc' = "ln_digit"
    /\ UNCHANGED <<fn, arg, n, rn, exp, a, kln10, digits, i, c, x, y, last, result>>

\* One pass of the do-while of table entry j:
\* p = a * table[j]; if (p >= 10.0) break; a = p; digits[j]++; while (a < 10.0)
LnDigitStep ==
    /\ pc = "ln_digit"
    /\ j < M
    /\ LET p == FMul(a, ln1_table(j)) IN
       IF FGe(p, Ten)
       THEN /\ j' = j + 1
            /\ UNCHANGED <<a, digits>>
       ELSE /\ a' = p
            /\ digits' = [digits EXCEPT ![j] = @ + 1]
            /\ j' = IF FLt(p, Ten) THEN j ELSE j + 1
    /\ UNCHANGED <<fn, pc, arg, n, rn, exp, kln10, i, c, x, y, last, result>>

\* double result = (10.0 - a) / 10.0; for (int j = M - 1; ...
LnDigitsDone ==
    /\ pc = "ln_digit"
    /\ j >= M
    /\ result' = FDiv(FSub(Ten, a), Ten)
    /\ j' = M - 1
    /\ pc' = "ln_sum"
    /\ UNCHANGED <<fn, arg, n, rn, exp, a, kln10, digits, i, c, x, y, last>>

\* result = result + digits[j] * logs[j]; j--
LnSumStep ==
    /\ pc = "ln_sum"
    /\ j >= 0
    /\ result' = FAdd(result, FMul(FromInt(digits[j]), ln1_logs(j)))
    /\ j' = j - 1
    /\ UNCHANGED <<fn, pc, arg, n, rn, exp, a, kln10, digits, i, c, x, y, last>>

LnFinish_nokln10 ==
    /\ pc = "ln_sum"
    /\ j < 0
    /\ result' = FSub(ln10, result)
    /\ pc' = "ln_ret"
    /\ UNCHANGED <<fn, arg, n, rn, exp, a, kln10, digits, i, j, c, x, y, last>>

\* result = ln10 - result; result += kln10; return result;
LnFinish ==
    /\ pc = "ln_sum"
    /\ j < 0
    /\ result' = FAdd(FSub(ln10, result), kln10)
    /\ pc' = "ln_ret"
    /\ UNCHANGED <<fn, arg, n, rn, exp, a, kln10, digits, i, j, c, x, y, last>>

\* algo_log: LN(x) is printed, or handed on to EXP in EXP(LN(x))
AlgoLogAfterLn ==
    /\ pc = "ln_ret"
    /\ IF fn = "sym"
       THEN n' = result /\ pc' = "exp_entry"
       ELSE n' = n /\ pc' = "done"
    /\ UNCHANGED <<fn, arg, rn, exp, a, kln10, digits, i, j, c, x, y, last, result>>

(***************************************************************************)
(* exp1                                                                    *)
(***************************************************************************)
OutOfRange_ge(v) == FGe(v, ExpLimit)

OutOfRange_never(v) == FALSE

\* if (n > 230)
OutOfRange(v) == FGt(v, ExpLimit)

\* if (n > 230) return 0; int digits[K + 1] = {0}; double a = fabs(n);
ExpEntry ==
    /\ pc = "exp_entry"
    /\ IF OutOfRange(n)
       THEN /\ result' = Zero
            /\ pc' = "done"
            /\ UNCHANGED <<a, digits, j>>
       ELSE /\ digits' = [k \in 0..K |-> 0]
            /\ a' = FAbs(n)
            /\ j' = 0
            /\ pc' = "exp_digit"
            /\ UNCHANGED result
    /\ UNCHANGED <<fn, arg, n, rn, exp, kln10, i, c, x, y, last>>

\* One pass of the do-while of table entry j:
\* s = a - logs[j]; if (s < 0.0) break; a = s; digits[j]++; while (a >= 0.0)
ExpDigitStep ==
    /\ pc = "exp_digit"
    /\ j < K + 1
    /\ LET s == FSub(a, exp1_logs(j)) IN
       IF FLt(s, Zero)
       THEN /\ j' = j + 1
            /\ UNCHANGED <<a, digits>>
       ELSE /\ a' = s
            /\ digits' = [digits EXCEPT ![j] = @ + 1]
            /\ j' = IF FGe(s, Zero) THEN j ELSE j + 1
    /\ UNCHANGED <<fn, pc, arg, n, rn, exp, kln10, i, c, x, y, last, result>>

ExpDigitsDone_from1 ==
    /\ pc = "exp_digit"
    /\ j >= K + 1
    /\ result' = FMul(a, Pow10(K - 1))
    /\ j' = 1
    /\ c' = 0
    /\ pc' = "exp_recon"
    /\ UNCHANGED <<fn, arg, n, rn, exp, a, kln10, digits, i, x, y, last>>

\* double result = a; result = result * pow(10, K - 1); for (int j = K; ...
ExpDigitsDone ==
    /\ pc = "exp_digit"
    /\ j >= K + 1
    /\ result' = FMul(a, Pow10(K - 1))
    /\ j' = K
    /\ c' = 0
    /\ pc' = "exp_recon"
    /\ UNCHANGED <<fn, arg, n, rn, exp, a, kln10, digits, i, x, y, last>>

\* for (c = 0; c < digits[j]; c++) result = result * table[j] + 1;
ExpReconStep ==
    /\ pc = "exp_recon"
    /\ j > 0
    /\ c < digits[j]
    /\ result' = FAdd(FMul(result, exp1_table(j)), One)
    /\ c' = c + 1
    /\ UNCHANGED <<fn, pc, arg, n, rn, exp, a, kln10, digits, i, j, x, y, last>>

\* result = result / 10; j--
ExpReconNext ==
    /\ pc = "exp_recon"
    /\ j > 0
    /\ c >= digits[j]
    /\ result' = FDiv(result, Ten)
    /\ j' = j - 1
    /\ c' = 0
    /\ UNCHANGED <<fn, pc, arg, n, rn, exp, a, kln10, digits, i, x, y, last>>

\* result = result + 0.1; result = result * 10; for (int j = 0; ...
ExpReconDone ==
    /\ pc = "exp_recon"
    /\ j <= 0
    /\ result' = FMul(FAdd(result, Tenth), Ten)
    /\ j' = 0
    /\ pc' = "exp_pow"
    /\ UNCHANGED <<fn, arg, n, rn, exp, a, kln10, digits, i, c, x, y, last>>

\* for (j = 0; j < digits[0]; j++) result = result * 10;
ExpPowStep ==
    /\ pc = "exp_pow"
    /\ j < digits[0]
    /\ result' = FMul(result, Ten)
    /\ j' = j + 1
    /\ UNCHANGED <<fn, pc, arg, n, rn, exp, a, kln10, digits, i, c, x, y, last>>

\* if (is_neg) result = 1.0 / result; return result;
ExpFinish ==
    /\ pc = "exp_pow"
    /\ j >= digits[0]
    /\ result' = IF is_neg THEN FDiv(One, result) ELSE result
    /\ pc' = "done"
    /\ UNCHANGED <<fn, arg, n, rn, exp, a, kln10, digits, i, j, c, x, y, last>>

(***************************************************************************)
(* algo_log: LN(x), EXP(x) and EXP(LN(x)) on each test value               *)
(***************************************************************************)
InitLog ==
    /\ Locals
    /\ \/ fn = "ln" /\ pc = "ln_entry" /\ arg \in LnInputs
       \/ fn = "exp" /\ pc = "exp_entry" /\ arg \in ExpInputs
       \/ fn = "sym" /\ pc = "ln_entry" /\ arg \in LnInputs
    /\ n = arg

NextLog ==
    \/ LnEntry
    \/ LnExponentStep
    \/ LnExponentDone
    \/ LnDigitStep
    \/ LnDigitsDone
    \/ LnSumStep
    \/ LnFinish
    \/ AlgoLogAfterLn
    \/ ExpEntry
    \/ ExpDigitStep
    \/ ExpDigitsDone
    \/ ExpReconStep
    \/ ExpReconNext
    \/ ExpReconDone
    \/ ExpPowStep
    \/ ExpFinish

SpecLog == InitLog /\ [][NextLog]_vars

(***************************************************************************)
(* sqrt1.  loop_cnt, which the source only increments for statistics and   *)
(* never reads, is left out.                                               *)
(***************************************************************************)
SqrtInputs == Ints \cup SeqRange(tests_sqrt)

\* if (n < 0) return 0; if (n == 0) return 0; double result = n / 10;
SqrtEntry ==
    /\ pc = "sqrt_entry"
    /\ IF FLt(n, Zero) \/ FEq(n, Zero)
       THEN result' = Zero /\ pc' = "done"
       ELSE result' = FDiv(n, Ten) /\ pc' = "sqrt_loop"
    /\ UNCHANGED <<fn, arg, n, rn, exp, a, kln10, digits, i, j, c, x, y, last>>

\* One Newton update from the iterate r
NewtonUpdate(r) == FDiv(FAdd(r, FDiv(n, r)), FromInt(2))

NotConverged_input(l, r) == FGt(FAbs(FSub(n, r)), Tolerance)

\* while (fabs(last - result) > 1e-15)
NotConverged(l, r) == FGt(FAbs(FSub(l, r)), Tolerance)

\* do { last = result; sx = n / last; result = (last + sx) / 2; } while (...)
SqrtStep ==
    /\ pc = "sqrt_loop"
    /\ last' = result
    /\ result' = NewtonUpdate(result)
    /\ pc' = IF NotConverged(last', result') THEN "sqrt_loop" ELSE "done"
    /\ UNCHANGED <<fn, arg, n, rn, exp, a, kln10, digits, i, j, c, x, y>>

InitSqrt ==
    /\ Locals
    /\ fn = "sqrt" /\ pc = "sqrt_entry" /\ arg \in SqrtInputs
    /\ n = arg

NextSqrt ==
    \/ SqrtEntry
    \/ SqrtStep

SpecSqrt == InitSqrt /\ [][NextSqrt]_vars

\* The call runs on one thread that nothing suspends: a step that can be taken is taken.
FairSpecSqrt == SpecSqrt /\ WF_vars(NextSqrt)

(***************************************************************************)
(* range_reduction                                                         *)
(***************************************************************************)
TwoPi == FMul(FromInt(2), pi)

RECURSIVE DecExpUp(_, _)
DecExpUp(v, e) ==
    IF e < 22 /\ FGe(v, Pow10(e + 1)) THEN DecExpUp(v, e + 1) ELSE e

RECURSIVE DecExpDown(_, _)
DecExpDown(v, k) ==
    IF k < 22 /\ FLe(FMul(v, Pow10(k + 1)), One) THEN DecExpDown(v, k + 1) ELSE k

\* int(log10(v)) for v > 0: the decimal exponent, truncated toward zero
Log10Int(v) == IF FGe(v, One) THEN DecExpUp(v, 0) ELSE 0 - DecExpDown(v, 0)

IntMin == (0 - 2147483647) - 1

\* int(log10(0.0)) converts -infinity to int, which is undefined: the hardware
\* answers INT_MIN, another build may answer anything.
IntOfMinusInf == {IntMin, -1, 0, 1, 2}

\* int exp = int(log10(n));
RrEntry ==
    /\ pc = "rr_entry"
    /\ exp' \in (IF IsZero(rn) THEN IntOfMinusInf ELSE {Log10Int(rn)})
    /\ pc' = "rr_exp"
    /\ UNCHANGED <<fn, arg, n, rn, a, kln10, digits, i, j, c, x, y, last, result>>

\* while (exp > 0) { two_pi = 2 * pi * pow(10, exp);
\*                   if (n >= two_pi) n = n - two_pi; else exp--; }
RrExpStep ==
    /\ pc = "rr_exp"
    /\ exp > 0
    /\ LET two_pi == FMul(TwoPi, Pow10(exp)) IN
       IF FGe(rn, two_pi)
       THEN rn' = FSub(rn, two_pi) /\ exp' = exp
       ELSE rn' = rn /\ exp' = exp - 1
    /\ UNCHANGED <<fn, pc, arg, n, a, kln10, digits, i, j, c, x, y, last, result>>

RrExpDone ==
    /\ pc = "rr_exp"
    /\ exp <= 0
    /\ pc' = "rr_unit"
    /\ UNCHANGED <<fn, arg, n, rn, exp, a, kln10, digits, i, j, c, x, y, last, result>>

\* while (n > 0) n = n - 2 * pi;
RrUnitStep ==
    /\ pc = "rr_unit"
    /\ FGt(rn, Zero)
    /\ rn' = FSub(rn, TwoPi)
    /\ UNCHANGED <<fn, pc, arg, n, exp, a, kln10, digits, i, j, c, x, y, last, result>>

\* The value range_reduction returns from the loop's last n: n = n + 2 * pi
Readjust(v) == FAdd(v, TwoPi)

\* n = n + 2 * pi; return n;   and in tan1: y = range_reduction(y); for (int i = 0; ...
RrReturn ==
    /\ pc = "rr_unit"
    /\ ~FGt(rn, Zero)
    /\ rn' = Readjust(rn)
    /\ y' = rn'
    /\ i' = 0
    /\ pc' = "tan_digit"
    /\ UNCHANGED <<fn, arg, n, exp, a, kln10, digits, j, c, x, last, result>>

(***************************************************************************)
(* tan1                                                                    *)
(***************************************************************************)
\* 3*pi/2 and 1e-20
ThreeHalfPi == [s |-> 0, e |-> -50, m |-> <<8658, 32358, 26097, 150>>]

Tiny1em20 == [s |-> 0, e |-> -119, m |-> <<16931, 6436, 29316, 188>>]

TanInputs == Ints \cup SeqRange(tests_tan) \cup {ThreeHalfPi, Tiny1em20}

\* double result = 0; int digits[K] = {0}; double y = fabs(n); y = range_reduction(y);
TanEntry ==
    /\ pc = "tan_entry"
    /\ result' = Zero
    /\ digits' = NoDigits
    /\ y' = FAbs(n)
    /\ rn' = FAbs(n)
    /\ pc' = "rr_entry"
    /\ UNCHANGED <<fn, arg, n, exp, a, kln10, i, j, c, x, last>>

\* while (y >= 0) { y = y - tans[i]; digits[i]++; }
TanSubtract ==
    /\ pc = "tan_digit"
    /\ i < K
    /\ FGe(y, Zero)
    /\ y' = FSub(y, tans(i))
    /\ digits' = [digits EXCEPT ![i] = @ + 1]
    /\ UNCHANGED <<fn, pc, arg, n, rn, exp, a, kln10, i, j, c, x, last, result>>

TanAddBack_nodec ==
    /\ pc = "tan_digit"
    /\ i < K
    /\ ~FGe(y, Zero)
    /\ y' = FAdd(y, tans(i))
    /\ i' = i + 1
    /\ UNCHANGED <<fn, pc, arg, n, rn, exp, a, kln10, digits, j, c, x, last, result>>

\* y += tans[i]; digits[i]--; i++
TanAddBack ==
    /\ pc = "tan_digit"
    /\ i < K
    /\ ~FGe(y, Zero)
    /\ y' = FAdd(y, tans(i))
    /\ digits' = [digits EXCEPT ![i] = @ - 1]
    /\ i' = i + 1
    /\ UNCHANGED <<fn, pc, arg, n, rn, exp, a, kln10, j, c, x, last, result>>

\* double x = 1; for (int i = K - 1; ...
TanDigitsDone ==
    /\ pc = "tan_digit"
    /\ i >= K
    /\ x' = One
    /\ i' = K - 1
    /\ j' = 0
    /\ pc' = "tan_rot"
    /\ UNCHANGED <<fn, arg, n, rn, exp, a, kln10, digits, c, y, last, result>>

\* xnew = x * table[i]; ynew = y * table[i]; x = x - ynew; y = y + xnew; j++
TanRotStep ==
    /\ pc = "tan_rot"
    /\ i >= 0
    /\ j < digits[i]
    /\ LET xnew == FMul(x, table(i))
           ynew == FMul(y, table(i))
       IN  x' = FSub(x, ynew) /\ y' = FAdd(y, xnew)
    /\ j' = j + 1
    /\ UNCHANGED <<fn, pc, arg, n, rn, exp, a, kln10, digits, i, c, last, result>>

\* i--
TanRotNext ==
    /\ pc = "tan_rot"
    /\ i >= 0
    /\ j >= digits[i]
    /\ i' = i - 1
    /\ j' = 0
    /\ UNCHANGED <<fn, pc, arg, n, rn, exp, a, kln10, digits, c, x, y, last, result>>

\* if (x == 0) return 0; result = y / x; if (is_neg) result = -result; return result;
TanFinish ==
    /\ pc = "tan_rot"
    /\ i < 0
    /\ result' = IF FEq(x, Zero) THEN Zero
                 ELSE IF is_neg THEN FNeg(FDiv(y, x))
                 ELSE FDiv(y, x)
    /\ pc' = "done"
    /\ UNCHANGED <<fn, arg, n, rn, exp, a, kln10, digits, i, j, c, x, y, last>>

(***************************************************************************)
(* atan1                                                                   *)
(***************************************************************************)
AtanInputs == Ints \cup SeqRange(tests_atan)

\* double result = 0; int digits[K] = {0}; double x = 1; double y = fabs(n);
AtanEntry ==
    /\ pc = "atan_entry"
    /\ result' = Zero
    /\ digits' = NoDigits
    /\ x' = One
    /\ y' = FAbs(n)
    /\ i' = 0
    /\ pc' = "atan_vec"
    /\ UNCHANGED <<fn, arg, n, rn, exp, a, kln10, j, c, last>>

AtanVecStep_minus ==
    /\ pc = "atan_vec"
    /\ i < K
    /\ LET xnew == FMul(x, table(i))
           ynew == FMul(y, table(i))
       IN  IF FLt(FSub(y, xnew), Zero)
           THEN /\ i' = i + 1
                /\ UNCHANGED <<x, y, digits>>
           ELSE /\ x' = FSub(x, ynew)
                /\ y' = FSub(y, xnew)
                /\ digits' = [digits EXCEPT ![i] = @ + 1]
                /\ i' = i
    /\ UNCHANGED <<fn, pc, arg, n, rn, exp, a, kln10, j, c, last, result>>

\* One pass of the while (true) of table entry i:
\* xnew = x * table[i]; ynew = y * table[i]; if ((y - xnew) < 0) break;
\* x = x + ynew; y = y - xnew; digits[i]++;
AtanVecStep ==
    /\ pc = "atan_vec"
    /\ i < K
    /\ LET xnew == FMul(x, table(i))
           ynew == FMul(y, table(i))
       IN  IF FLt(FSub(y, xnew), Zero)
           THEN /\ i' = i + 1
                /\ UNCHANGED <<x, y, digits>>
           ELSE /\ x' = FAdd(x, ynew)
                /\ y' = FSub(y, xnew)
                /\ digits' = [digits EXCEPT ![i] = @ + 1]
                /\ i' = i
    /\ UNCHANGED <<fn, pc, arg, n, rn, exp, a, kln10, j, c, last, result>>

\* result = y / x; for (int j = K - 1; ...
AtanVecDone ==
    /\ pc = "atan_vec"
    /\ i >= K
    /\ result' = FDiv(y, x)
    /\ j' = K - 1
    /\ pc' = "atan_sum"
    /\ UNCHANGED <<fn, arg, n, rn, exp, a, kln10, digits, i, c, x, y, last>>

\* result = result + digits[j] * tans[j]; j--
AtanSumStep ==
    /\ pc = "atan_sum"
    /\ j >= 0
    /\ result' = FAdd(result, FMul(FromInt(digits[j]), tans(j)))
    /\ j' = j - 1
    /\ UNCHANGED <<fn, pc, arg, n, rn, exp, a, kln10, digits, i, c, x, y, last>>

\* if (is_neg) result = -result; return result;
AtanFinish ==
    /\ pc = "atan_sum"
    /\ j < 0
    /\ result' = IF is_neg THEN FNeg(result) ELSE result
    /\ pc' = "done"
    /\ UNCHANGED <<fn, arg, n, rn, exp, a, kln10, digits, i, j, c, x, y, last>>

(***************************************************************************)
(* algo_trig: TAN(x) and ATAN(x) on each test value                        *)
(***************************************************************************)
InitTrig ==
    /\ Locals
    /\ \/ fn = "tan" /\ pc = "tan_entry" /\ arg \in TanInputs
       \/ fn = "atan" /\ pc = "atan_entry" /\ arg \in AtanInputs
    /\ n = arg

NextTrig ==
    \/ TanEntry
    \/ RrEntry
    \/ RrExpStep
    \/ RrExpDone
    \/ RrUnitStep
    \/ RrReturn
    \/ TanSubtract
    \/ TanAddBack
    \/ TanDigitsDone
    \/ TanRotStep
    \/ TanRotNext
    \/ TanFinish
    \/ AtanEntry
    \/ AtanVecStep
    \/ AtanVecDone
    \/ AtanSumStep
    \/ AtanFinish

SpecTrig == InitTrig /\ [][NextTrig]_vars

(***************************************************************************)
(* The whole program: every harness call on every input.                   *)
(***************************************************************************)
Init == InitLog \/ InitSqrt \/ InitTrig

Next == NextLog \/ NextSqrt \/ NextTrig

Spec == Init /\ [][Next]_vars

(***************************************************************************)
(* Properties of ln1 and exp1, checked under SpecLog                       *)
(***************************************************************************)

\* C1: Exp returns exactly 0 for every input n > 230 without running the digit
\* extraction (every local is as declared), and the boundary input n = 230 is
\* not rejected: its extraction runs and the value returned is strictly positive.
C1_ExpBoundary ==
    pc = "done" /\ fn = "exp" =>
        /\ FGt(n, ExpLimit) =>
              /\ IsZero(result)
              /\ IsZero(a) /\ digits = NoDigits /\ j = 0 /\ c = 0
        /\ FEq(n, ExpLimit) =>
              /\ DOMAIN digits = 0..K
              /\ digits[0] > 0
              /\ FGt(result, Zero)

C1_Witness ==
    /\ pc = "done" /\ fn = "exp"
    /\ FEq(n, ExpLimit)
    /\ digits[0] = 99
    /\ FGt(result, Pow10(22))

\* The state in which the exponent loop of ln1 has just been left
LnMantissaReady == pc = "ln_digit" /\ j = 0 /\ digits[0] = 0

\* C5 as stated: for every n > 0, when the exponent-extraction loop ends the
\* mantissa a lies in [1, 10).
C5_MantissaInOneTen ==
    LnMantissaReady => FGe(a, One) /\ FLt(a, Ten)

\* C5 amended: when the exponent-extraction loop ends, 0 < a < 10; a >= 1 when
\* n >= 1, and for n < 1 the loop has not run and a is n itself.
C5_MantissaBelowTen ==
    LnMantissaReady =>
        /\ FGt(a, Zero) /\ FLt(a, Ten)
        /\ FGe(n, One) => FGe(a, One)
        /\ FLt(n, One) => a = n /\ IsZero(kln10)

C5_Witness ==
    /\ LnMantissaReady
    /\ FGe(n, Ten)
    /\ FGt(kln10, ln10)
    /\ FGe(a, One) /\ FLt(a, Ten)

\* A step of a loop that moves from one table entry to the next: the old and new index
ReconMove == pc = "exp_recon" /\ pc' = "exp_recon" /\ j' # j

SumMove == pc = "ln_sum" /\ pc' = "ln_sum"

RoundTripTol == [s |-> 0, e |-> -92, m |-> <<27153, 603, 24166, 140>>]

WithinRoundTrip(r, v) == FLe(FAbs(FSub(r, v)), FMul(v, RoundTripTol))

\* The harness has printed EXP(LN(x)) for an x > 0
SymDone == pc = "done" /\ fn = "sym" /\ FGt(arg, Zero)

TanDone == pc = "done" /\ fn = "tan"

\* The reduced angle is exactly k times the first table angle, pi/4
AtQuarterTurns(k) == FEq(rn, FMul(FromInt(k), tans(0)))

\* C2: for an input whose reduced angle is exactly pi/2 (twice the first table
\* angle, zero remainder) or 3*pi/2, the pseudo-rotation ends with x == 0 and Tan
\* returns 0 instead of computing y / x.
C2_AsymptoteReturnsZero ==
    TanDone /\ (AtQuarterTurns(2) \/ AtQuarterTurns(6)) =>
        /\ IsZero(x)
        /\ ~IsZero(y)
        /\ IsZero(result)

C2_Witness ==
    /\ TanDone
    /\ arg = tests_tan[6]
    /\ AtQuarterTurns(2)
    /\ digits[0] = 2
    /\ IsZero(x) /\ IsZero(result)

\* The state in which range_reduction has just returned to tan1
RangeReduced == pc = "tan_digit" /\ i = 0 /\ digits[0] = 0

\* C3: for every non-negative input angle range_reduction returns a value in
\* (0, 2*pi], strictly greater than 0 and at most 2*pi; the input 0 returns 2*pi.
C3_ReducedInHalfOpenRange ==
    RangeReduced =>
        /\ FGt(y, Zero) /\ FLe(y, TwoPi)
        /\ IsZero(n) => y = TwoPi

\* Exact arithmetic on signed dyadic numbers (-1)^s * N * 2^e, N of any size
ExOf(d) == [s |-> d.s, N |-> d.m, e |-> d.e]

ExNeg(p) == [p EXCEPT !.s = 1 - p.s]

ExAdd(p, q) ==
    IF p.N = <<>> THEN q
    ELSE IF q.N = <<>> THEN p
    ELSE LET e == IF p.e < q.e THEN p.e ELSE q.e
             P == BShl(p.N, p.e - e)
             Q == BShl(q.N, q.e - e)
         IN  IF p.s = q.s THEN [s |-> p.s, N |-> BAdd(P, Q), e |-> e]
             ELSE IF BCmp(P, Q) >= 0 THEN [s |-> p.s, N |-> BSub(P, Q), e |-> e]
             ELSE [s |-> q.s, N |-> BSub(Q, P), e |-> e]

\* The exact sum over t <= k of digits[t] * tans[t]
RECURSIVE DigitSum(_)
DigitSum(k) ==
    IF k < 0 THEN ExOf(Zero)
    ELSE ExAdd(DigitSum(k - 1),
               [s |-> 0, N |-> BMulSmall(tans(k).m, digits[k]), e |-> tans(k).e])

\* reduced angle - (y + sum over t <= k of digits[t] * tans[t]), exactly
Residual(k) == ExAdd(ExOf(rn), ExNeg(ExAdd(ExOf(y), DigitSum(k))))

\* 1e-14: above the rounding the subtractions and add-backs of one call can add up to
RemainderTol == [s |-> 0, e |-> -99, m |-> <<11163, 3394, 4718, 180>>]

\* Table entry i - 1 has just been processed: the add-back and decrement are done
AfterEntry == pc = "tan_digit" /\ i >= 1 /\ (i = K \/ digits[i] = 0)

\* C7 as stated: after table entry i has been processed, 0 <= y < tans[i],
\* digits[i] >= 0 and the reduced angle equals y plus the sum over k <= i of
\* digits[k] * tans[k].
C7_ExactRemainder ==
    AfterEntry =>
        /\ FGe(y, Zero) /\ FLt(y, tans(i - 1))
        /\ digits[i - 1] >= 0
        /\ Residual(i - 1).N = <<>>

\* C7 amended: after table entry i has been processed, 0 <= y < tans[i],
\* digits[i] >= 0 and the reduced angle equals y plus the sum over k <= i of
\* digits[k] * tans[k] up to the rounding of the double subtractions, within 1e-14.
C7_RemainderUpToRounding ==
    AfterEntry =>
        /\ FGe(y, Zero) /\ FLt(y, tans(i - 1))
        /\ digits[i - 1] >= 0
        /\ LET d == Residual(i - 1) IN FLe(Round(0, d.N, d.e), RemainderTol)

C7_Witness ==
    /\ AfterEntry
    /\ i = K
    /\ arg = tests_tan[5]
    /\ digits[0] = 1 /\ digits[1] > 0
    /\ Residual(K - 1).N # <<>>

\* The states of atan1 from the vectoring loop on
AtanRunning == fn = "atan" /\ pc \in {"atan_vec", "atan_sum", "done"}

\* C10: in Atan, x >= 1 and y >= 0 hold in every state of the vectoring loop and
\* after it (x never decreases, a step is taken only when y - x * ratio >= 0), so
\* the divisor of y / x is never zero, no result is a sentinel, and the sign of
\* the result is that of the input.
C10_AtanWellDefined ==
    /\ [](AtanRunning => FGe(x, One) /\ FGe(y, Zero))
    /\ [](AtanRunning /\ pc = "done" =>
             /\ FGt(n, Zero) => FGt(result, Zero)
             /\ FLt(n, Zero) => FLt(result, Zero)
             /\ IsZero(n) => IsZero(result))
    /\ [][pc = "atan_vec" =>
             /\ FGe(x', x)
             /\ y' # y => FGe(FSub(y, FMul(x, table(i))), Zero)]_vars

C10_Witness ==
    /\ AtanRunning /\ pc = "done"
    /\ arg = tests_atan[4]
    /\ digits[0] = 1 /\ digits[1] = 7
    /\ FGt(x, Ten)
    /\ FLt(result, Zero)

(***************************************************************************)
(* Properties of the digit counters of all four functions, checked under   *)
(* Spec                                                                    *)
(***************************************************************************)

\* 2^d, exactly
TwoTo(d) == [One EXCEPT !.e = @ + d]

\* ln1 holds its counters: from the digit loop until the harness has used the result
LnCounting ==
    /\ FGt(n, Zero)
    /\ \/ fn \in {"ln", "sym"} /\ pc \in {"ln_digit", "ln_sum", "ln_ret"}
       \/ fn = "ln" /\ pc = "done"

\* exp1 holds its counters, or has rejected its input before declaring them
ExpCounting ==
    \/ pc \in {"exp_digit", "exp_recon", "exp_pow"}
    \/ fn \in {"exp", "sym"} /\ pc = "done"

\* tan1 is inside the subtract loop of table entry k, the add-back still to come
TanSubtracting(k) == fn = "tan" /\ pc = "tan_digit" /\ i = k

C8_SqrtTerminates ==
    (fn = "sqrt" /\ FGt(n, Zero)) ~> (pc = "done" /\ ~NotConverged(last, result))

C8_Witness ==
    /\ pc = "done" /\ fn = "sqrt"
    /\ arg = tests_sqrt[8]
    /\ last = result
    /\ FGt(result, Pow10(22))

====
